---- MODULE Spec2Model ----
(***************************************************************************)
(* A model of iptvcheck.py: the playlist parser (parse_playlist), the      *)
(* stream validator (check_stream) run by the worker threads of a          *)
(* ThreadPoolExecutor, and the collection loop of process_playlist.        *)
(*                                                                         *)
(* A line of text is a sequence of tokens: " " is whitespace, a prefix     *)
(* token such as "#EXTINF:" or "http://" is the text str.startswith looks  *)
(* for, and any other token is payload.                                    *)
(* extract_headers_from_options slices a directive by character           *)
(* positions; there a line is spelled out in characters (Spell, Chars).    *)
(*                                                                         *)
(* Spec is an uninterrupted run, SigSpec a run that may receive SIGINT,    *)
(* ParseSpec the parser alone, HeaderSpec the header derivation of one     *)
(* channel, CallSpec one check_stream call with its probes recorded,      *)
(* BatchSpec several runs in one process (batch mode).                     *)
(***************************************************************************)
EXTENDS Integers, Sequences, FiniteSets, TLC

VARIABLES
    content,        \* the playlist text, a sequence of lines
    channels,       \* parse_playlist's result, as process_playlist holds it
    mpc,            \* the main thread's position in process_playlist
    submitted,      \* number of channels handed to executor.submit
    tpc,            \* per channel: the position of its check_stream call
    attempt,        \* per channel: the loop variable of check_stream
    pend,           \* per channel: the outcome the call is about to install
    tmp,            \* per channel: the counter value loaded by "+= 1"
    result,         \* per channel: what the future holds once it is done
    probed,         \* per channel: the external probes the call invoked
    lastDecode,     \* per channel: how the latest ffmpeg run of the call ended
    bumped,         \* per channel: the counters the call stored into
    cache,          \* the module-level dict cache: url -> (success, reason)
    stats,          \* the module-level Stats object
    collected,      \* the channels the collection loop has taken, in order
    updated_lines,  \* the output playlist buffer
    skipped_file,   \* the lines appended to SKIPPED_FILE_PATH
    saved,          \* the lines written to save_file
    overBudget,     \* whether the wait for the future taken last outlasted the
                    \* wait budget the scheduler is meant to enforce
    trace,          \* the probes invoked so far, in order, in a call that is
                    \* observed on its own (history)
    runs            \* the invocations of process_playlist begun in this process

vars == <<content, channels, mpc, submitted, tpc, attempt, pend, tmp, result,
          probed, lastDecode, bumped, cache, stats, collected, updated_lines,
          skipped_file, saved, overBudget, trace, runs>>

\* ------------------------------------------------------------------ bounds
MaxChannels == 2
MaxLines == 4
MaxOptions == 2
MaxBatches == 2

\* --------------------------------------------------------------- constants
RETRY_COUNT == 1
NUM_THREADS == 4

\* ------------------------------------------------------------------- text
WS == " "
None == <<>>

startswith(line, prefix) == Len(line) > 0 /\ line[1] = prefix

RECURSIVE lstrip(_)
lstrip(line) ==
    IF line # <<>> /\ Head(line) = WS THEN lstrip(Tail(line)) ELSE line

RECURSIVE rstrip(_)
rstrip(line) ==
    IF line # <<>> /\ line[Len(line)] = WS
    THEN rstrip(SubSeq(line, 1, Len(line) - 1))
    ELSE line

strip(line) == rstrip(lstrip(line))

DirectivePrefixes == {"#EXTVLCOPT:", "#KODIPROP:", "#EXTGRP:", "#EXTLOGO:"}
UrlSchemes == {"http://", "https://", "rtmp://", "rtsp://", "mms://", "udp://"}

IsHttp(url) == startswith(url, "http://") \/ startswith(url, "https://")

\* ---------------------------------------------------------- parse_playlist
NewChannel(line) == [extinf |-> line, url |-> None, options |-> <<>>]

\* current_channel is the dict appended last, or None before the first #EXTINF
HasCurrent(chs) == Len(chs) > 0

\* a URL line ahead of every #EXTINF line opens an entry of its own
SetUrl_OpensEntry(chs, line) ==
    IF HasCurrent(chs) THEN [chs EXCEPT ![Len(chs)].url = line]
    ELSE <<[extinf |-> <<>>, url |-> line, options |-> <<>>]>>

SetUrl(chs, line) ==
    IF HasCurrent(chs) THEN [chs EXCEPT ![Len(chs)].url = line] ELSE chs

AddOption(chs, line) ==
    IF HasCurrent(chs)
    THEN [chs EXCEPT ![Len(chs)].options = Append(@, line)]
    ELSE chs

\* one iteration of the for loop over lines
ParseLine(chs, raw) ==
    LET line == strip(raw) IN
    IF line = <<>> \/ line = <<"#EXTM3U">> THEN chs
    ELSE IF startswith(line, "#EXTINF:") THEN Append(chs, NewChannel(line))
    ELSE IF \E p \in DirectivePrefixes : startswith(line, p) THEN AddOption(chs, line)
    ELSE IF \E s \in UrlSchemes : startswith(line, s) THEN SetUrl(chs, line)
    ELSE chs

RECURSIVE ParseLoop(_, _)
ParseLoop(chs, lines) ==
    IF lines = <<>> THEN chs
    ELSE ParseLoop(ParseLine(chs, Head(lines)), Tail(lines))

\* the truth value Python gives a url field
Truthy(x) == x # None

\* the filter on the return line is left out
KeepWithUrl_KeepsAll(chs) == chs

KeepWithUrl(chs) ==
    LET keep == {i \in 1..Len(chs) : Truthy(chs[i].url)}
        RECURSIVE pick(_)
        pick(i) == IF i > Len(chs) THEN <<>>
                   ELSE IF i \in keep THEN <<chs[i]>> \o pick(i + 1)
                   ELSE pick(i + 1)
    IN pick(1)

parse_playlist(lines) == KeepWithUrl(ParseLoop(<<>>, lines))

\* ------------------------------------------------------- text as characters
\* extract_headers_from_options slices and searches a directive by character
\* positions, so there a line is spelled out: Spell gives every token its
\* characters, and Chars(line) is the str the function receives.
Spell ==
    "#EXTVLCOPT:" :> <<"#", "E", "X", "T", "V", "L", "C", "O", "P", "T", ":">> @@
    "#KODIPROP:" :> <<"#", "K", "O", "D", "I", "P", "R", "O", "P", ":">> @@
    "#EXTGRP:" :> <<"#", "E", "X", "T", "G", "R", "P", ":">> @@
    "#EXTLOGO:" :> <<"#", "E", "X", "T", "L", "O", "G", "O", ":">> @@
    "#EXTINF:" :> <<"#", "E", "X", "T", "I", "N", "F", ":">> @@
    "#EXTM3U" :> <<"#", "E", "X", "T", "M", "3", "U">> @@
    "http-user-agent=" :> <<"h", "t", "t", "p", "-", "u", "s", "e", "r", "-", "a", "g", "e", "n", "t", "=">> @@
    "http-referrer=" :> <<"h", "t", "t", "p", "-", "r", "e", "f", "e", "r", "r", "e", "r", "=">> @@
    "http-origin=" :> <<"h", "t", "t", "p", "-", "o", "r", "i", "g", "i", "n", "=">> @@
    "http-header=" :> <<"h", "t", "t", "p", "-", "h", "e", "a", "d", "e", "r", "=">> @@
    "http-" :> <<"h", "t", "t", "p", "-">> @@
    "inputstream.adaptive.stream_headers=" :> <<"i", "n", "p", "u", "t", "s", "t", "r", "e", "a", "m", ".", "a", "d", "a", "p", "t", "i", "v", "e", ".", "s", "t", "r", "e", "a", "m", "_", "h", "e", "a", "d", "e", "r", "s", "=">> @@
    "User-Agent" :> <<"U", "s", "e", "r", "-", "A", "g", "e", "n", "t">> @@
    "Referer" :> <<"R", "e", "f", "e", "r", "e", "r">> @@
    "Origin" :> <<"O", "r", "i", "g", "i", "n">> @@
    "user-agent" :> <<"u", "s", "e", "r", "-", "a", "g", "e", "n", "t">> @@
    "referrer" :> <<"r", "e", "f", "e", "r", "r", "e", "r">> @@
    "referer" :> <<"r", "e", "f", "e", "r", "e", "r">> @@
    "origin" :> <<"o", "r", "i", "g", "i", "n">> @@
    ".useragent" :> <<".", "u", "s", "e", "r", "a", "g", "e", "n", "t">> @@
    "http-user-agent" :> <<"h", "t", "t", "p", "-", "u", "s", "e", "r", "-", "a", "g", "e", "n", "t">> @@
    "http-referrer" :> <<"h", "t", "t", "p", "-", "r", "e", "f", "e", "r", "r", "e", "r">> @@
    "http-referer" :> <<"h", "t", "t", "p", "-", "r", "e", "f", "e", "r", "e", "r">> @@
    "http-origin" :> <<"h", "t", "t", "p", "-", "o", "r", "i", "g", "i", "n">> @@
    "user-agent=" :> <<"u", "s", "e", "r", "-", "a", "g", "e", "n", "t", "=">> @@
    "referrer=" :> <<"r", "e", "f", "e", "r", "r", "e", "r", "=">> @@
    "referer=" :> <<"r", "e", "f", "e", "r", "e", "r", "=">> @@
    "origin=" :> <<"o", "r", "i", "g", "i", "n", "=">> @@
    "Foo/1.0" :> <<"F", "o", "o", "/", "1", ".", "0">> @@
    "Bar" :> <<"B", "a", "r">> @@
    "Ref" :> <<"R", "e", "f">> @@
    "Org" :> <<"O", "r", "g">> @@
    "X-Token" :> <<"X", "-", "T", "o", "k", "e", "n">> @@
    "x-token" :> <<"x", "-", "t", "o", "k", "e", "n">> @@
    "Tok" :> <<"T", "o", "k">> @@
    "Gen" :> <<"G", "e", "n">> @@
    "Tok2" :> <<"T", "o", "k", "2">> @@
    "Kua" :> <<"K", "u", "a">> @@
    "Tok3" :> <<"T", "o", "k", "3">> @@
    "Ref2" :> <<"R", "e", "f", "2">> @@
    "Kgen" :> <<"K", "g", "e", "n">> @@
    "Org2" :> <<"O", "r", "g", "2">> @@
    "News" :> <<"N", "e", "w", "s">> @@
    "-1" :> <<"-", "1">> @@
    "A" :> <<"A">> @@
    "B" :> <<"B">> @@
    "C" :> <<"C">> @@
    "Q" :> <<"Q">> @@
    "1" :> <<"1">> @@
    "R" :> <<"R">> @@
    "O" :> <<"O">> @@
    "u1" :> <<"u", "1">> @@
    "u2" :> <<"u", "2">> @@
    "http://" :> <<"h", "t", "t", "p", ":", "/", "/">> @@
    "https://" :> <<"h", "t", "t", "p", "s", ":", "/", "/">> @@
    "rtmp://" :> <<"r", "t", "m", "p", ":", "/", "/">> @@
    "rtsp://" :> <<"r", "t", "s", "p", ":", "/", "/">> @@
    "mms://" :> <<"m", "m", "s", ":", "/", "/">> @@
    "udp://" :> <<"u", "d", "p", ":", "/", "/">> @@
    " " :> <<" ">> @@
    "," :> <<",">> @@
    ":" :> <<":">> @@
    "=" :> <<"=">> @@
    "&" :> <<"&">> @@
    "\"" :> <<"\"">>

Str(token) == Spell[token]

RECURSIVE Chars(_)
Chars(line) == IF line = <<>> THEN <<>> ELSE Str(Head(line)) \o Chars(Tail(line))

UpperCase == <<"A", "B", "C", "D", "E", "F", "G", "H", "I", "J", "K", "L", "M",
               "N", "O", "P", "Q", "R", "S", "T", "U", "V", "W", "X", "Y", "Z">>
LowerCase == <<"a", "b", "c", "d", "e", "f", "g", "h", "i", "j", "k", "l", "m",
               "n", "o", "p", "q", "r", "s", "t", "u", "v", "w", "x", "y", "z">>

LowerChar(c) ==
    IF \E k \in 1..26 : UpperCase[k] = c
    THEN LowerCase[CHOOSE k \in 1..26 : UpperCase[k] = c] ELSE c

UpperChar(c) ==
    IF \E k \in 1..26 : LowerCase[k] = c
    THEN UpperCase[CHOOSE k \in 1..26 : LowerCase[k] = c] ELSE c

\* str.lower
RECURSIVE lower(_)
lower(s) == IF s = <<>> THEN <<>> ELSE <<LowerChar(Head(s))>> \o lower(Tail(s))

\* str.capitalize
capitalize(s) ==
    IF s = <<>> THEN <<>> ELSE <<UpperChar(Head(s))>> \o lower(Tail(s))

\* s.startswith(p), s.endswith(p), s[n:]
StartsWith(s, p) == Len(s) >= Len(p) /\ SubSeq(s, 1, Len(p)) = p
EndsWith(s, p) == Len(s) >= Len(p) /\ SubSeq(s, Len(s) - Len(p) + 1, Len(s)) = p
From(s, n) == SubSeq(s, n + 1, Len(s))

\* s.find(p, k): the lowest 0-based index at or after k where p occurs, or -1
RECURSIVE FindFrom(_, _, _)
FindFrom(s, p, k) ==
    IF k + Len(p) > Len(s) THEN -1
    ELSE IF SubSeq(s, k + 1, k + Len(p)) = p THEN k
    ELSE FindFrom(s, p, k + 1)

find(s, p) == FindFrom(s, p, 0)

\* p in s
In(p, s) == find(s, p) # -1

\* s.split(sep, 1)
split1(s, sep) ==
    LET k == find(s, sep) IN
    IF k = -1 THEN <<s>> ELSE <<SubSeq(s, 1, k), From(s, k + Len(sep))>>

\* s.split(sep)
RECURSIVE split(_, _)
split(s, sep) ==
    LET k == find(s, sep) IN
    IF k = -1 THEN <<s>>
    ELSE <<SubSeq(s, 1, k)>> \o split(From(s, k + Len(sep)), sep)

\* s.replace(p, '')
RECURSIVE remove(_, _)
remove(s, p) ==
    LET k == find(s, p) IN
    IF k = -1 THEN s ELSE SubSeq(s, 1, k) \o remove(From(s, k + Len(p)), p)

\* '-'.join(word.capitalize() for word in s.split('-'))
RECURSIVE JoinCapitalized(_)
JoinCapitalized(words) ==
    IF Len(words) = 1 THEN capitalize(words[1])
    ELSE capitalize(Head(words)) \o <<"-">> \o JoinCapitalized(Tail(words))

TitleCase(s) == JoinCapitalized(split(s, <<"-">>))

\* ------------------------------------------- extract_headers_from_options
\* The header mapping is a function from header names to values, both spelled
\* out in characters.
NoHeaders == [k \in {} |-> <<>>]

SetHeader(h, k, v) == [x \in DOMAIN h \cup {k} |-> IF x = k THEN v ELSE h[x]]

UserAgent == Str("User-Agent")
Referer == Str("Referer")
Origin == Str("Origin")

VlcUserAgentPrefix == Str("#EXTVLCOPT:") \o Str("http-user-agent=")
VlcReferrerPrefix == Str("#EXTVLCOPT:") \o Str("http-referrer=")
VlcOriginPrefix == Str("#EXTVLCOPT:") \o Str("http-origin=")
VlcHeaderPrefix == Str("#EXTVLCOPT:") \o Str("http-header=")
KodiStreamHeadersPrefix ==
    Str("#KODIPROP:") \o Str("inputstream.adaptive.stream_headers=")

\* the value is taken as it stands after the prefix
VlcUserAgent_Unstripped(option) == From(option, 27)

\* option[27:].strip(), option[25:].strip(), option[21:].strip()
VlcUserAgent(option) == strip(From(option, 27))
VlcReferrer(option) == strip(From(option, 25))
VlcOrigin(option) == strip(From(option, 21))

\* #EXTVLCOPT:http-header=
VlcHeader(h, option) ==
    LET header_line == strip(From(option, 22)) IN
    IF In(<<":">>, header_line)
    THEN LET kv == split1(header_line, <<":">>)
         IN SetHeader(h, strip(kv[1]), strip(kv[2]))
    ELSE h

\* "Generic VLC options format"
VlcGeneric(h, option) ==
    LET option_value == strip(From(option, 11)) IN
    IF StartsWith(option_value, Str("http-"))
    THEN LET parts == split1(option_value, <<"=">>) IN
         IF Len(parts) = 2
         THEN LET header_name == remove(parts[1], Str("http-"))
                  name == IF lower(header_name) = Str("user-agent") THEN UserAgent
                          ELSE IF lower(header_name) = Str("referrer") THEN Referer
                          ELSE IF lower(header_name) = Str("origin") THEN Origin
                          ELSE TitleCase(header_name)
              IN SetHeader(h, name, strip(parts[2]))
         ELSE h
    ELSE h

\* one header_pair of the stream headers
KodiPair(h, header_pair) ==
    IF In(<<"=">>, header_pair)
    THEN LET kv == split1(header_pair, <<"=">>)
             key == strip(kv[1])
             value == strip(kv[2])
         IN IF lower(key) = Str("user-agent") THEN SetHeader(h, UserAgent, value)
            ELSE IF lower(key) = Str("referer") \/ lower(key) = Str("referrer")
                 THEN SetHeader(h, Referer, value)
            ELSE IF lower(key) = Str("origin") THEN SetHeader(h, Origin, value)
            ELSE SetHeader(h, TitleCase(key), value)
    ELSE h

RECURSIVE KodiPairs(_, _)
KodiPairs(h, pairs) ==
    IF pairs = <<>> THEN h
    ELSE KodiPairs(KodiPair(h, Head(pairs)), Tail(pairs))

\* #KODIPROP:inputstream.adaptive.stream_headers=
KodiStreamHeaders(h, option) ==
    KodiPairs(h, split(strip(From(option, 43)), <<"&">>))

\* "Generic Kodi properties that might contain headers"
KodiGeneric(h, option) ==
    IF In(<<"=">>, option)
    THEN LET pv == split1(From(option, 10), <<"=">>)
             prop == lower(strip(pv[1]))
             value == strip(pv[2])
         IN IF prop = Str("user-agent") THEN SetHeader(h, UserAgent, value)
            ELSE IF prop \in {Str("referer"), Str("referrer")}
                 THEN SetHeader(h, Referer, value)
            ELSE IF prop = Str("origin") THEN SetHeader(h, Origin, value)
            ELSE IF EndsWith(prop, Str(".useragent")) THEN SetHeader(h, UserAgent, value)
            ELSE IF prop = Str("http-user-agent") THEN SetHeader(h, UserAgent, value)
            ELSE IF prop = Str("http-referrer") \/ prop = Str("http-referer")
                 THEN SetHeader(h, Referer, value)
            ELSE IF prop = Str("http-origin") THEN SetHeader(h, Origin, value)
            ELSE h
    ELSE h

\* one attribute of an #EXTINF: line: quoted, or up to the next space, or up
\* to the next comma, or the rest of the line
InfoAttr(h, option, keyword, name) ==
    LET start == find(lower(option), keyword) IN
    IF start > 0
    THEN LET part == From(option, start + Len(keyword)) IN
         IF StartsWith(part, <<"\"">>)
         THEN LET end_quote == FindFrom(part, <<"\"">>, 1) IN
              IF end_quote > 0 THEN SetHeader(h, name, SubSeq(part, 2, end_quote))
              ELSE h
         ELSE IF In(<<" ">>, part) THEN SetHeader(h, name, split1(part, <<" ">>)[1])
         ELSE IF In(<<",">>, part) THEN SetHeader(h, name, split1(part, <<",">>)[1])
         ELSE SetHeader(h, name, part)
    ELSE h

\* "Check for headers in the EXTINF line"
InfoLine(h, option) ==
    LET ref_keyword == IF In(Str("referrer="), lower(option))
                       THEN Str("referrer=") ELSE Str("referer=")
        h1 == InfoAttr(h, option, Str("user-agent="), UserAgent)
        h2 == InfoAttr(h1, option, ref_keyword, Referer)
    IN InfoAttr(h2, option, Str("origin="), Origin)

\* one iteration of the loop over options
OptionHeader(h, line) ==
    LET option == Chars(line) IN
    IF StartsWith(option, VlcUserAgentPrefix)
        THEN SetHeader(h, UserAgent, VlcUserAgent(option))
    ELSE IF StartsWith(option, VlcReferrerPrefix)
        THEN SetHeader(h, Referer, VlcReferrer(option))
    ELSE IF StartsWith(option, VlcOriginPrefix)
        THEN SetHeader(h, Origin, VlcOrigin(option))
    ELSE IF StartsWith(option, VlcHeaderPrefix) THEN VlcHeader(h, option)
    ELSE IF StartsWith(option, Str("#EXTVLCOPT:")) THEN VlcGeneric(h, option)
    ELSE IF StartsWith(option, KodiStreamHeadersPrefix)
        THEN KodiStreamHeaders(h, option)
    ELSE IF StartsWith(option, Str("#KODIPROP:")) THEN KodiGeneric(h, option)
    ELSE IF StartsWith(option, Str("#EXTINF:")) THEN InfoLine(h, option)
    ELSE h

RECURSIVE HeaderLoop(_, _)
HeaderLoop(h, options) ==
    IF options = <<>> THEN h
    ELSE HeaderLoop(OptionHeader(h, Head(options)), Tail(options))

extract_headers_from_options(options) == HeaderLoop(NoHeaders, options)

\* ------------------------------------------------------------ check_stream
\* An outcome is the pair check_stream returns; NoReason is Python's None in
\* its second place.  A future is running, or holds the returned pair, or
\* holds None (a call that falls out of the for loop without a return
\* statement), or holds the exception the call raised.
NoReason == "None"
Working == <<TRUE, NoReason>>
TimeoutOutcome == <<FALSE, "ffmpeg timeout">>
GeneralOutcome == <<FALSE, "General error">>
NoOutcome == <<FALSE, "">>
NoResult == [kind |-> "running", val |-> NoOutcome]
\* the timeout outcome leaves the call as a raised TimeoutError
Returned_RaisesOnTimeout(out) ==
    IF out = <<FALSE, "ffmpeg timeout">>
    THEN [kind |-> "raise", val |-> <<FALSE, "TimeoutError">>]
    ELSE [kind |-> "return", val |-> out]

Returned(out) == [kind |-> "return", val |-> out]
NoneResult == [kind |-> "none", val |-> NoOutcome]

\* error_output is modelled by the set of the known substrings it contains
Patterns == {"403 Forbidden", "404 Not Found", "401 Unauthorized",
             "Protocol not found", "Connection refused", "Unable to open resource"}

\* "404 Not Found" is looked for ahead of "403 Forbidden"
error_reason_NotFoundFirst(error_output) ==
    IF "404 Not Found" \in error_output THEN "Stream not found (404)"
    ELSE IF "403 Forbidden" \in error_output THEN "Access forbidden (403)"
    ELSE IF "401 Unauthorized" \in error_output THEN "Authentication required (401)"
    ELSE IF "Protocol not found" \in error_output THEN "Protocol not supported"
    ELSE IF "Connection refused" \in error_output THEN "Connection refused"
    ELSE IF "Unable to open resource" \in error_output THEN "Unable to open resource"
    ELSE "Stream does not work"

error_reason(error_output) ==
    IF "403 Forbidden" \in error_output THEN "Access forbidden (403)"
    ELSE IF "404 Not Found" \in error_output THEN "Stream not found (404)"
    ELSE IF "401 Unauthorized" \in error_output THEN "Authentication required (401)"
    ELSE IF "Protocol not found" \in error_output THEN "Protocol not supported"
    ELSE IF "Connection refused" \in error_output THEN "Connection refused"
    ELSE IF "Unable to open resource" \in error_output THEN "Unable to open resource"
    ELSE "Stream does not work"

\* What a step of one attempt decides: return ctr/out after counting, or go on.
Ret(ctr, out) == [ret |-> TRUE, ctr |-> ctr, out |-> out]
GoOn == [ret |-> FALSE, ctr |-> "", out |-> NoOutcome]

\* a probe signalled success: count, install, return
OnSuccess == Ret("working", Working)

\* the end of the try block: "Only mark as failed on last retry attempt"
OnAllFailed(att, reason) ==
    IF att = RETRY_COUNT THEN Ret("failed", <<FALSE, reason>>) ELSE GoOn

\* the timeout is counted and reported like any other failure
OnTimeoutExpired_AsFailure(att) ==
    IF att = RETRY_COUNT THEN Ret("failed", <<FALSE, "Stream does not work">>) ELSE GoOn

\* except subprocess.TimeoutExpired
OnTimeoutExpired(att) ==
    IF att = RETRY_COUNT THEN Ret("timeout", TimeoutOutcome) ELSE GoOn

\* the handler only logs, on the last attempt too
OnException_OnlyLogs(att) == GoOn

\* except Exception
OnException(att) ==
    IF att = RETRY_COUNT THEN Ret("failed", GeneralOutcome) ELSE GoOn

\* str(e) of a request exception is modelled by the set of the substrings of
\* the table it contains; the first key of error_map found in it decides
RequestPatterns == {"No connection adapters", "Timeout", "403 Forbidden"}

simplify_error(error_message) ==
    IF "No connection adapters" \in error_message THEN "No connection!"
    ELSE IF "Timeout" \in error_message THEN "Request timeout"
    ELSE IF "403 Forbidden" \in error_message THEN "Access forbidden (403)"
    ELSE "Request error"

\* except requests.exceptions.RequestException
OnRequestException(att, error_message) ==
    IF att = RETRY_COUNT THEN Ret("failed", <<FALSE, simplify_error(error_message)>>)
    ELSE GoOn

\* --------------------------------------------------------- the run's state
Chans == 1..Len(channels)
UrlOf(i) == channels[i].url
HeadersOf(i) == extract_headers_from_options(channels[i].options)
Headers_truthy(h) == DOMAIN h # {}

ZeroStats == [working |-> 0, failed |-> 0, timeout |-> 0, skipped |-> 0]
EmptyCache == [u \in {} |-> NoOutcome]

\* tasks a worker thread is executing
Running == {i \in Chans : tpc[i] \notin {"idle", "queued", "done"}}

CollectedSet == {collected[k] : k \in 1..Len(collected)}

\* the first stage of an attempt: the preflight only for http/https URLs
FirstStage(url) == IF IsHttp(url) THEN "preflight" ELSE "decode"

\* the URL is written ahead of the directive lines
Block_UrlBeforeOptions(ch) == <<ch.extinf, ch.url>> \o ch.options

\* the channel's lines as the collection loop appends them
Block(ch) == <<ch.extinf>> \o ch.options \o <<ch.url>>

\* future.result() re-raises what the call raised
RaisedTimeout == [kind |-> "raise", val |-> <<FALSE, "TimeoutError">>]

\* content.strip().startswith("#EXTM3U"), then the header is prepended
RECURSIVE FirstText(_)
FirstText(lines) ==
    IF lines = <<>> THEN <<>>
    ELSE IF strip(Head(lines)) = <<>> THEN FirstText(Tail(lines))
    ELSE strip(Head(lines))

AddHeader(lines) ==
    IF startswith(FirstText(lines), "#EXTM3U") THEN lines
    ELSE <<<<"#EXTM3U">>>> \o lines

\* ------------------------------------------------------------------ inputs
\* a channel without directives on a non-HTTP URL, a channel with directives
\* (one of them a header) on an HTTP URL, and an info line without a URL
BlkPlain == << <<"#EXTINF:", "-1", ",", "A">>, <<"rtmp://", "u1">> >>
BlkOpts == << <<"#EXTINF:", "-1", ",", "B">>,
              <<"#EXTVLCOPT:", "http-user-agent=", "Foo/1.0">>,
              <<"#EXTGRP:", "News">>,
              <<"http://", "u2">> >>
BlkNoUrl == << <<"#EXTINF:", "-1", ",", "C">> >>
Blocks == {BlkPlain, BlkOpts, BlkNoUrl}

RECURSIVE Flatten(_)
Flatten(bs) == IF bs = <<>> THEN <<>> ELSE Head(bs) \o Flatten(Tail(bs))

Playlists ==
    {Flatten(bs) : bs \in UNION {[1..n -> Blocks] : n \in 0..MaxChannels}}

ErrorSamples == {{"404 Not Found", "403 Forbidden"}}

\* -------------------------------------------------------------------- Init
IdleRun ==
    /\ channels = <<>>
    /\ submitted = 0
    /\ tpc = <<>> /\ attempt = <<>> /\ pend = <<>> /\ tmp = <<>>
    /\ result = <<>> /\ probed = <<>> /\ lastDecode = <<>> /\ bumped = <<>>
    /\ cache = EmptyCache
    /\ stats = ZeroStats
    /\ collected = <<>>
    /\ updated_lines = <<>>
    /\ skipped_file = <<>>
    /\ saved = <<>>
    /\ overBudget = FALSE
    /\ trace = <<>>
    /\ runs = 1

Init ==
    /\ content \in Playlists
    /\ mpc = "load"
    /\ IdleRun

\* -------------------------------------------------------- process_playlist
\* read the text, parse it, start the output buffer with the header
Load ==
    /\ mpc = "load"
    /\ LET chs == parse_playlist(AddHeader(content)) IN
       /\ channels' = chs
       /\ tpc' = [i \in 1..Len(chs) |-> "idle"]
       /\ attempt' = [i \in 1..Len(chs) |-> 0]
       /\ pend' = [i \in 1..Len(chs) |-> GoOn]
       /\ tmp' = [i \in 1..Len(chs) |-> 0]
       /\ result' = [i \in 1..Len(chs) |-> NoResult]
       /\ probed' = [i \in 1..Len(chs) |-> FALSE]
       /\ lastDecode' = [i \in 1..Len(chs) |-> "none"]
       /\ bumped' = [i \in 1..Len(chs) |-> <<>>]
       /\ mpc' = IF Len(chs) = 0 THEN "collect" ELSE "submit"
    /\ updated_lines' = <<<<"#EXTM3U">>>>
    /\ UNCHANGED <<content, submitted, cache, stats, collected, skipped_file, saved,
                   overBudget, trace, runs>>

\* executor.submit(check_stream, url, channel_name, headers, ffmpeg_timeout)
Submit ==
    /\ mpc = "submit"
    /\ submitted' = submitted + 1
    /\ tpc' = [tpc EXCEPT ![submitted + 1] = "queued"]
    /\ mpc' = IF submitted + 1 = Len(channels) THEN "collect" ELSE "submit"
    /\ UNCHANGED <<content, channels, attempt, pend, tmp, result, probed,
                   lastDecode, bumped, cache, stats, collected, updated_lines,
                   skipped_file, saved, overBudget, trace, runs>>

\* the success flag is not looked at
Appended_Always(ch, r) == Block(ch)

\* what one iteration of the as_completed loop appends to the buffer
Appended(ch, r) == IF r.val[1] THEN Block(ch) ELSE <<>>

\* One iteration of the loop over as_completed(future_to_channel).  The loop
\* passes no timeout to as_completed or to future.result(): how long the wait
\* lasted is an input the code never reads.
Collect(i) ==
    /\ mpc = "collect"
    /\ tpc[i] = "done"
    /\ i \notin CollectedSet
    /\ collected' = Append(collected, i)
    /\ overBudget' \in BOOLEAN
    /\ IF result[i] = RaisedTimeout
       THEN /\ stats' = [stats EXCEPT !.skipped = @ + 1]
            /\ skipped_file' = skipped_file \o Block(channels[i])
            /\ UNCHANGED <<updated_lines, mpc>>
       ELSE IF result[i] = NoneResult
       THEN /\ mpc' = "aborted"
            /\ UNCHANGED <<stats, skipped_file, updated_lines>>
       ELSE /\ updated_lines' = updated_lines \o Appended(channels[i], result[i])
            /\ UNCHANGED <<stats, skipped_file, mpc>>
    /\ UNCHANGED <<content, channels, submitted, tpc, attempt, pend, tmp, result,
                   probed, lastDecode, bumped, cache, saved, trace, runs>>

\* the loop is over: write save_file, then the summary
Finish ==
    /\ mpc = "collect"
    /\ CollectedSet = Chans
    /\ saved' = updated_lines
    /\ mpc' = "done"
    /\ UNCHANGED <<content, channels, submitted, tpc, attempt, pend, tmp, result,
                   probed, lastDecode, bumped, cache, stats, collected,
                   updated_lines, skipped_file, overBudget, trace, runs>>

\* ------------------------------------------------- check_stream, by steps
\* Frame of a worker step that touches only the call's own position.
MainUnchanged ==
    UNCHANGED <<content, channels, mpc, submitted, collected, updated_lines,
                skipped_file, saved, overBudget, runs>>

\* after a stage decided d: go and count, or sleep before the next attempt
Decide(i, d) ==
    /\ tpc' = [tpc EXCEPT ![i] = IF d.ret THEN "load" ELSE "sleep"]
    /\ pend' = [pend EXCEPT ![i] = d]

\* the lookup at entry never finds the URL
CacheHitAtEntry_Never(url) == FALSE

\* "if url in cache" at entry
CacheHitAtEntry(url) == url \in DOMAIN cache

\* a worker thread takes the task: "if url in cache: return cache[url]"
EnterHit(i) ==
    /\ tpc[i] = "queued"
    /\ Cardinality(Running) < NUM_THREADS
    /\ CacheHitAtEntry(UrlOf(i))
    /\ result' = [result EXCEPT ![i] = Returned(cache[UrlOf(i)])]
    /\ tpc' = [tpc EXCEPT ![i] = "done"]
    /\ UNCHANGED <<attempt, pend, tmp, probed, lastDecode, bumped, cache, stats, trace>>
    /\ MainUnchanged

EnterMiss(i) ==
    /\ tpc[i] = "queued"
    /\ Cardinality(Running) < NUM_THREADS
    /\ ~CacheHitAtEntry(UrlOf(i))
    /\ tpc' = [tpc EXCEPT ![i] = FirstStage(UrlOf(i))]
    /\ UNCHANGED <<attempt, pend, tmp, result, probed, lastDecode, bumped, cache, stats, trace>>
    /\ MainUnchanged

\* A call observed on its own (mpc = "call") records each probe it invokes:
\* the call, its attempt, the stage, how the stage ended and, for ffmpeg, the
\* known substrings of its stderr.  Inside a run nothing is recorded.
Observing == mpc = "call"

Event(i, stage, out, err) ==
    [ch |-> i, att |-> attempt[i], stage |-> stage, out |-> out, err |-> err]

Log(i, stage, out, err) ==
    trace' = IF Observing THEN Append(trace, Event(i, stage, out, err)) ELSE trace

\* the except clause that takes what the preflight raised: the one next to
\* the requests calls ("except requests.RequestException", which only logs)
\* is tried before the handlers of the attempt's try block
PreflightHandler(r) ==
    IF r = "status" THEN "none"
    ELSE IF r = "RequestException" THEN "logged"
    ELSE "Exception"

\* requests.head / requests.get: a status, a RequestException, or another
\* exception.  The status only shortens the ffmpeg timeout.
Preflight(i) ==
    /\ tpc[i] = "preflight"
    /\ \E r \in {"status", "RequestException", "Exception"} :
         /\ Log(i, "preflight", r, {})
         /\ CASE PreflightHandler(r) \in {"none", "logged"} ->
                   /\ tpc' = [tpc EXCEPT ![i] = "decode"]
                   /\ UNCHANGED pend
              [] PreflightHandler(r) = "RequestException" ->
                   \E msg \in SUBSET RequestPatterns :
                       Decide(i, OnRequestException(attempt[i], msg))
              [] PreflightHandler(r) = "Exception" ->
                   Decide(i, OnException(attempt[i]))
    /\ UNCHANGED <<attempt, tmp, result, probed, lastDecode, bumped, cache, stats>>
    /\ MainUnchanged

\* after ffmpeg returned non-zero: the fallbacks on the first attempt only
AfterDecodeFailed(att) == IF att = 0 THEN "ffprobe" ELSE "end"

\* the stderr texts ffmpeg is given: one sample inside a run, every
\* combination of the known substrings in a call observed on its own
ErrorOutputs == IF Observing THEN SUBSET Patterns ELSE ErrorSamples

\* subprocess.run(ffmpeg_command, ..., timeout=ffmpeg_timeout_reduced)
Decode(i) ==
    /\ tpc[i] = "decode"
    /\ probed' = [probed EXCEPT ![i] = TRUE]
    /\ \E r \in {"ok", "fail", "timeout", "error"} :
         /\ lastDecode' = [lastDecode EXCEPT ![i] = r]
         /\ CASE r = "ok" -> Decide(i, OnSuccess) /\ Log(i, "decode", r, {})
              [] r = "timeout" ->
                   Decide(i, OnTimeoutExpired(attempt[i])) /\ Log(i, "decode", r, {})
              [] r = "error" ->
                   Decide(i, OnException(attempt[i])) /\ Log(i, "decode", r, {})
              [] r = "fail" ->
                   \E err \in ErrorOutputs :
                     LET d == OnAllFailed(attempt[i], error_reason(err)) IN
                     /\ Log(i, "decode", r, err)
                     /\ IF AfterDecodeFailed(attempt[i]) = "ffprobe"
                        THEN /\ tpc' = [tpc EXCEPT ![i] = "ffprobe"]
                             /\ pend' = [pend EXCEPT ![i] = d]
                        ELSE Decide(i, d)
    /\ UNCHANGED <<attempt, tmp, result, bumped, cache, stats>>
    /\ MainUnchanged

\* "if url.startswith(('http://', 'https://')) and headers"
CurlApplies(url, headers) == IsHttp(url) /\ Headers_truthy(headers)

\* subprocess.run(ffprobe_cmd, ...): every exception is caught next to the call
Ffprobe(i) ==
    /\ tpc[i] = "ffprobe"
    /\ \E r \in {"ok", "fail"} :
         /\ Log(i, "ffprobe", r, {})
         /\ IF r = "ok" THEN Decide(i, OnSuccess)
            ELSE IF CurlApplies(UrlOf(i), HeadersOf(i))
            THEN /\ tpc' = [tpc EXCEPT ![i] = "curl"]
                 /\ UNCHANGED pend
            ELSE Decide(i, pend[i])
    /\ UNCHANGED <<attempt, tmp, result, probed, lastDecode, bumped, cache, stats>>
    /\ MainUnchanged

\* subprocess.run(curl_cmd, ...): every exception is caught next to the call
Curl(i) ==
    /\ tpc[i] = "curl"
    /\ \E r \in {"ok", "fail"} :
         /\ Log(i, "curl", r, {})
         /\ IF r = "ok" THEN Decide(i, OnSuccess) ELSE Decide(i, pend[i])
    /\ UNCHANGED <<attempt, tmp, result, probed, lastDecode, bumped, cache, stats>>
    /\ MainUnchanged

\* time.sleep(2), then the next iteration of "for attempt in range(RETRY_COUNT + 1)";
\* a call whose loop is exhausted returns None
Sleep(i) ==
    /\ tpc[i] = "sleep"
    /\ IF attempt[i] + 1 <= RETRY_COUNT
       THEN /\ attempt' = [attempt EXCEPT ![i] = @ + 1]
            /\ tpc' = [tpc EXCEPT ![i] = FirstStage(UrlOf(i))]
            /\ UNCHANGED result
       ELSE /\ result' = [result EXCEPT ![i] = NoneResult]
            /\ tpc' = [tpc EXCEPT ![i] = "done"]
            /\ attempt' = [attempt EXCEPT ![i] = 0]
    /\ lastDecode' = [lastDecode EXCEPT ![i] = "none"]
    /\ UNCHANGED <<pend, tmp, probed, bumped, cache, stats, trace>>
    /\ MainUnchanged

\* "stats.<ctr> += 1" reads the attribute ...
LoadCounter(i) ==
    /\ tpc[i] = "load"
    /\ tmp' = [tmp EXCEPT ![i] = stats[pend[i].ctr]]
    /\ tpc' = [tpc EXCEPT ![i] = "store"]
    /\ UNCHANGED <<attempt, pend, result, probed, lastDecode, bumped, cache, stats, trace>>
    /\ MainUnchanged

\* ... and stores the sum
StoreCounter(i) ==
    /\ tpc[i] = "store"
    /\ stats' = [stats EXCEPT ![pend[i].ctr] = tmp[i] + 1]
    /\ bumped' = [bumped EXCEPT ![i] = Append(@, pend[i].ctr)]
    /\ tmp' = [tmp EXCEPT ![i] = 0]
    /\ tpc' = [tpc EXCEPT ![i] = "install"]
    /\ UNCHANGED <<attempt, pend, result, probed, lastDecode, cache, trace>>
    /\ MainUnchanged

\* "cache[url] = ..."
Installed(c, url, out) ==
    [u \in DOMAIN c \cup {url} |-> IF u = url THEN out ELSE c[u]]

\* "cache[url] = (success, reason)" and the return, which ends the call's locals
Install(i) ==
    /\ tpc[i] = "install"
    /\ cache' = Installed(cache, UrlOf(i), pend[i].out)
    /\ result' = [result EXCEPT ![i] = Returned(pend[i].out)]
    /\ tpc' = [tpc EXCEPT ![i] = "done"]
    /\ attempt' = [attempt EXCEPT ![i] = 0]
    /\ pend' = [pend EXCEPT ![i] = GoOn]
    /\ lastDecode' = [lastDecode EXCEPT ![i] = "none"]
    /\ UNCHANGED <<tmp, probed, bumped, stats, trace>>
    /\ MainUnchanged

Next ==
    \/ Load
    \/ Submit
    \/ \E i \in Chans : EnterHit(i)
    \/ \E i \in Chans : EnterMiss(i)
    \/ \E i \in Chans : Preflight(i)
    \/ \E i \in Chans : Decode(i)
    \/ \E i \in Chans : Ffprobe(i)
    \/ \E i \in Chans : Curl(i)
    \/ \E i \in Chans : Sleep(i)
    \/ \E i \in Chans : LoadCounter(i)
    \/ \E i \in Chans : StoreCounter(i)
    \/ \E i \in Chans : Install(i)
    \/ \E i \in Chans : Collect(i)
    \/ Finish

Spec == Init /\ [][Next]_vars

\* ------------------------------------------------ a run that is interrupted
\* SIGINT: signal_handler runs in the main thread and raises SystemExit
\* there.  Before the executor exists the process exits at once.  Inside the
\* "with ThreadPoolExecutor(...)" block the exception leaves the block through
\* the executor's __exit__, which is shutdown(wait=True): nothing more is
\* submitted, the tasks already submitted stay in the work queue, and the
\* main thread joins the workers.
Interrupt ==
    /\ mpc \in {"load", "submit", "collect"}
    /\ mpc' = IF mpc = "load" THEN "exited" ELSE "shutdown"
    /\ UNCHANGED <<content, channels, submitted, tpc, attempt, pend, tmp, result,
                   probed, lastDecode, bumped, cache, stats, collected,
                   updated_lines, skipped_file, saved, overBudget, trace, runs>>

\* the workers have run every submitted task; SystemExit ends the process
\* ahead of the write of save_file and of the summary
Exit ==
    /\ mpc = "shutdown"
    /\ \A i \in 1..submitted : tpc[i] = "done"
    /\ mpc' = "exited"
    /\ UNCHANGED <<content, channels, submitted, tpc, attempt, pend, tmp, result,
                   probed, lastDecode, bumped, cache, stats, collected,
                   updated_lines, skipped_file, saved, overBudget, trace, runs>>

SigNext ==
    \/ Next
    \/ Interrupt
    \/ Exit

SigSpec == Init /\ [][SigNext]_vars

\* --------------------------------------------------- several runs in a row
\* The batch mode (main with -file) hands the playlists of a folder to
\* process_playlist one after the other in one process.  Between two runs the
\* driver applies the reset operation: Stats.reset on the statistics and a
\* fresh, empty cache.

\* the failed counter is left as it is
reset_KeepsFailed(st) == [st EXCEPT !.working = 0, !.timeout = 0, !.skipped = 0]

\* Stats.reset
reset(st) == [working |-> 0, failed |-> 0, timeout |-> 0, skipped |-> 0]

\* the cache as the reset operation leaves it
ResetCache(c) == EmptyCache

BatchPlaylists ==
    { Flatten(<<BlkPlain>>), Flatten(<<BlkOpts>>), Flatten(<<BlkPlain, BlkPlain>>) }

BatchInit ==
    /\ content \in BatchPlaylists
    /\ mpc = "load"
    /\ IdleRun

\* the driver's loop: the run is over, reset, then the next playlist
NextPlaylist ==
    /\ mpc = "done"
    /\ runs < MaxBatches
    /\ runs' = runs + 1
    /\ content' \in BatchPlaylists
    /\ stats' = reset(stats)
    /\ cache' = ResetCache(cache)
    /\ mpc' = "load"
    /\ channels' = <<>>
    /\ submitted' = 0
    /\ tpc' = <<>> /\ attempt' = <<>> /\ pend' = <<>> /\ tmp' = <<>>
    /\ result' = <<>> /\ probed' = <<>> /\ lastDecode' = <<>> /\ bumped' = <<>>
    /\ collected' = <<>>
    /\ updated_lines' = <<>>
    /\ saved' = <<>>
    /\ overBudget' = FALSE
    /\ UNCHANGED <<skipped_file, trace>>

BatchNext ==
    \/ Next
    \/ NextPlaylist

BatchSpec == BatchInit /\ [][BatchNext]_vars

\* ------------------------------------------------ parse_playlist on its own
\* Lines of every kind the parser tells apart, some with surrounding blanks.
LineSamples ==
    { <<>>, <<WS>>, <<"#EXTM3U">>,
      <<"#EXTINF:", "a">>, <<WS, "#EXTINF:", "b", WS>>,
      <<"#EXTVLCOPT:", "o">>,
      <<"http://", "u1">>, <<WS, "udp://", "u2">>, <<"ftp://", "u3">> }

Texts == UNION {[1..n -> LineSamples] : n \in 0..MaxLines}

ParseInit ==
    /\ content \in Texts
    /\ mpc = "parse"
    /\ IdleRun

ParseOnly ==
    /\ mpc = "parse"
    /\ channels' = parse_playlist(content)
    /\ mpc' = "parsed"
    /\ UNCHANGED <<content, submitted, tpc, attempt, pend, tmp, result, probed,
                   lastDecode, bumped, cache, stats, collected, updated_lines,
                   skipped_file, saved, overBudget, trace, runs>>

ParseNext == ParseOnly

ParseSpec == ParseInit /\ [][ParseNext]_vars

\* ------------------------------------------------ the header derivation alone
\* One channel: an info line, up to MaxOptions directives in the syntaxes
\* extract_headers_from_options recognises, and a URL.  Load parses the text;
\* HeadersOf(1) is then the mapping the submit loop hands to check_stream.
InfoSamples ==
    { <<"#EXTINF:", "-1", ",", "A">>,
      <<"#EXTINF:", "-1", " ", "user-agent=", "\"", "Q", " ", "1", "\"", ",", "B">>,
      <<"#EXTINF:", "-1", " ", "referrer=", "R", " ", "origin=", "O", ",", "C">> }

DirectiveSamples ==
    { <<"#EXTVLCOPT:", "http-user-agent=", "Foo/1.0">>,
      <<"#EXTVLCOPT:", "http-user-agent=", " ", "Bar">>,
      <<"#EXTVLCOPT:", "http-referrer=", "Ref">>,
      <<"#EXTVLCOPT:", "http-origin=", "Org">>,
      <<"#EXTVLCOPT:", "http-header=", "X-Token", ":", " ", "Tok">>,
      <<"#EXTVLCOPT:", "http-", "User-Agent", "=", "Gen">>,
      <<"#EXTVLCOPT:", "http-", "x-token", "=", "Tok2">>,
      <<"#KODIPROP:", "inputstream.adaptive.stream_headers=",
        "user-agent", "=", "Kua", "&", "x-token", "=", "Tok3">>,
      <<"#KODIPROP:", "inputstream.adaptive.stream_headers=",
        "referer", "=", "Ref2">>,
      <<"#KODIPROP:", "user-agent", "=", "Kgen">>,
      <<"#KODIPROP:", "http-origin", "=", "Org2">>,
      <<"#EXTGRP:", "News">> }

HeaderTexts ==
    { <<inf>> \o opts \o << <<"http://", "u2">> >> :
        inf \in InfoSamples,
        opts \in UNION {[1..n -> DirectiveSamples] : n \in 0..MaxOptions} }

HeaderInit ==
    /\ content \in HeaderTexts
    /\ mpc = "load"
    /\ IdleRun

HeaderNext == Load

HeaderSpec == HeaderInit /\ [][HeaderNext]_vars

\* ---------------------------------------------------- one call on its own
\* check_stream(url, channel_name, headers, ffmpeg_timeout) called once, for a
\* channel on an HTTP or a non-HTTP URL, with or without a header directive,
\* while the cache is empty or holds the URL from an earlier call.
CallChannels ==
    { [extinf |-> <<"#EXTINF:", "-1", ",", "A">>, url |-> u, options |-> o] :
        u \in { <<"rtmp://", "u1">>, <<"http://", "u2">> },
        o \in { <<>>, << <<"#EXTVLCOPT:", "http-user-agent=", "Foo/1.0">> >> } }

CallInit ==
    /\ content = <<>>
    /\ channels \in {<<ch>> : ch \in CallChannels}
    /\ mpc = "call"
    /\ submitted = 1
    /\ tpc = <<"queued">> /\ attempt = <<0>> /\ pend = <<GoOn>> /\ tmp = <<0>>
    /\ result = <<NoResult>> /\ probed = <<FALSE>> /\ lastDecode = <<"none">>
    /\ bumped = << <<>> >>
    /\ \/ cache = EmptyCache /\ stats = ZeroStats
       \/ /\ cache = Installed(EmptyCache, channels[1].url, Working)
          /\ stats = [ZeroStats EXCEPT !.working = 1]
    /\ collected = <<>>
    /\ updated_lines = <<>>
    /\ skipped_file = <<>>
    /\ saved = <<>>
    /\ overBudget = FALSE
    /\ trace = <<>>
    /\ runs = 1

CallNext ==
    \/ \E i \in Chans : EnterHit(i)
    \/ \E i \in Chans : EnterMiss(i)
    \/ \E i \in Chans : Preflight(i)
    \/ \E i \in Chans : Decode(i)
    \/ \E i \in Chans : Ffprobe(i)
    \/ \E i \in Chans : Curl(i)
    \/ \E i \in Chans : Sleep(i)
    \/ \E i \in Chans : LoadCounter(i)
    \/ \E i \in Chans : StoreCounter(i)
    \/ \E i \in Chans : Install(i)

CallSpec == CallInit /\ [][CallNext]_vars

\* ----------------------------------------------------------------- claims
IsInfoLine(raw) == startswith(strip(raw), "#EXTINF:")
IsUrlLine(raw) == \E s \in UrlSchemes : startswith(strip(raw), s)

\* the #EXTINF lines followed by a URL line before the next #EXTINF line
InfoWithUrl(lines) ==
    {i \in 1..Len(lines) :
        /\ IsInfoLine(lines[i])
        /\ \E j \in (i + 1)..Len(lines) :
              /\ IsUrlLine(lines[j])
              /\ \A k \in (i + 1)..(j - 1) : ~IsInfoLine(lines[k])}

\* the k-th smallest element of a set of numbers
Kth(S, k) == CHOOSE x \in S : Cardinality({y \in S : y <= x}) = k

\* C6: parse_playlist returns one entry per #EXTINF line that is followed by
\* a line with a recognised URL scheme before the next #EXTINF line or the end
\* of the input, in the order of these lines; lines ahead of the first
\* #EXTINF line create no entry.
C6_EntriesAreInfoLinesWithUrl ==
    mpc = "parsed" =>
        /\ Len(channels) = Cardinality(InfoWithUrl(content))
        /\ \A k \in 1..Len(channels) :
              channels[k].extinf = strip(content[Kth(InfoWithUrl(content), k)])

C6_Witness ==
    /\ mpc = "parsed"
    /\ Len(content) = 4
    /\ IsUrlLine(content[1])
    /\ IsInfoLine(content[2])
    /\ ~IsInfoLine(content[3]) /\ ~IsUrlLine(content[3])
    /\ IsUrlLine(content[4])
    /\ Len(channels) = 1

\* C7: every entry parse_playlist returns has a URL, which is a line of the
\* input with a recognised scheme; an #EXTINF line that gets no URL line
\* before the next #EXTINF line or the end of the input gives no entry.
C7_EveryEntryHasUrl ==
    mpc = "parsed" =>
        /\ \A k \in 1..Len(channels) :
              /\ channels[k].url # <<>>
              /\ \E j \in 1..Len(content) :
                    IsUrlLine(content[j]) /\ channels[k].url = strip(content[j])
        /\ \A i \in 1..Len(content) :
              IsInfoLine(content[i]) /\ i \notin InfoWithUrl(content)
                => Cardinality({k \in 1..Len(channels) :
                                   channels[k].extinf = strip(content[i])})
                   <= Cardinality({j \in InfoWithUrl(content) :
                                      strip(content[j]) = strip(content[i])})

C7_Witness ==
    /\ mpc = "parsed"
    /\ Len(content) = 4
    /\ IsInfoLine(content[1]) /\ IsInfoLine(content[2])
    /\ IsUrlLine(content[3]) /\ IsInfoLine(content[4])
    /\ Len(channels) = 1

SameUrl(i, j) == i # j /\ UrlOf(i) = UrlOf(j)
Done(i) == tpc[i] = "done"
LinesOf(i) == <<channels[i].extinf>> \o channels[i].options \o <<channels[i].url>>
\* the step in which the collection loop takes channel i's future
Takes(i) == i \notin CollectedSet /\ collected' = Append(collected, i)

\* C1: of the check_stream calls for one URL, at most one invokes the
\* external probes.
C1_ProbesAtMostOncePerUrl ==
    \A i, j \in Chans : SameUrl(i, j) => ~(probed[i] /\ probed[j])

\* C2: once the run is over the four counters sum to the number of channels,
\* and every channel's call has incremented exactly one counter once.
C2_CountersSumToChannels ==
    mpc = "done" =>
        /\ stats.working + stats.failed + stats.timeout + stats.skipped
             = Len(channels)
        /\ \A i \in Chans :
              Len(bumped[i]) + (IF result[i] = RaisedTimeout THEN 1 ELSE 0) = 1

\* C3: channels with the same URL get the same outcome, and an entry of the
\* cache, once installed, is never replaced by a different outcome.
C3_SameOutcome ==
    \A i, j \in Chans : SameUrl(i, j) /\ Done(i) /\ Done(j) => result[i] = result[j]

C3_CacheStable == \A u \in DOMAIN cache : cache'[u] = cache[u]

C3_OneOutcomePerUrl == [](C3_SameOutcome) /\ [][C3_CacheStable]_vars

\* C4: the step that takes a channel's future appends the channel's info
\* line, directive lines and URL to the output buffer if the outcome is
\* Working and leaves the buffer alone otherwise; a one-channel run that ends
\* Working writes the header and the channel's lines and counts 1 working, 0
\* failed, 0 timed out, 0 skipped.
C4_Step ==
    \A i \in Chans :
        Takes(i) =>
            IF result[i] = Returned(Working)
            THEN updated_lines' = updated_lines \o LinesOf(i)
            ELSE updated_lines' = updated_lines

C4_OneChannel ==
    mpc = "done" /\ Len(channels) = 1 /\ result[1] = Returned(Working) =>
        /\ saved = <<<<"#EXTM3U">>>> \o LinesOf(1)
        /\ stats = [working |-> 1, failed |-> 0, timeout |-> 0, skipped |-> 0]

C4_AppendedIffWorking == [](C4_OneChannel) /\ [][C4_Step]_vars

C4_Witness ==
    /\ mpc = "done"
    /\ Len(collected) = 2
    /\ result[collected[1]].val[1] = FALSE
    /\ result[collected[2]] = Returned(Working)
    /\ Len(saved) > 1

\* the lines of the input from the k-th #EXTINF line that gets a URL up to
\* the line before the next #EXTINF line
SourceBlock(k) ==
    LET first == Kth(InfoWithUrl(content), k)
        later == {j \in (first + 1)..Len(content) : IsInfoLine(content[j])}
        last == IF later = {} THEN Len(content) ELSE Kth(later, 1) - 1
    IN SubSeq(content, first, last)

RECURSIVE BlocksOfWorking(_)
BlocksOfWorking(taken) ==
    IF taken = <<>> THEN <<>>
    ELSE (IF result[Head(taken)].val[1] THEN SourceBlock(Head(taken)) ELSE <<>>)
         \o BlocksOfWorking(Tail(taken))

\* C5: the output buffer is the header line followed, for each working channel
\* in the order the futures were taken, by the channel's lines as they stand
\* in the input (info line, directive lines in their order, URL), one
\* channel's lines after the other; the file written is this buffer.
C5_HeaderThenWholeBlocks ==
    /\ mpc \notin {"load", "parse", "parsed"} =>
          /\ updated_lines[1] = <<"#EXTM3U">>
          /\ updated_lines = <<<<"#EXTM3U">>>> \o BlocksOfWorking(collected)
    /\ mpc = "done" => saved = updated_lines

C5_Witness ==
    /\ mpc = "done"
    /\ collected = <<2, 1>>
    /\ result[1] = Returned(Working) /\ result[2] = Returned(Working)
    /\ channels[1].options # <<>>
    /\ channels[2].options = <<>>

\* C8: a decode probe that runs into its timeout on the last attempt makes
\* the call count on the timeout counter and not on the failed counter,
\* install the timeout outcome in the cache and return it, and the channel's
\* lines stay out of the output; on an earlier attempt it changes neither the
\* counters nor the cache nor the future, and the call goes on to the next
\* attempt.
C8_Step ==
    \A i \in Chans :
        /\ (tpc[i] = "decode" /\ lastDecode'[i] = "timeout" /\ attempt[i] < RETRY_COUNT)
              => /\ tpc'[i] = "sleep"
                 /\ result'[i] = NoResult
                 /\ stats' = stats /\ cache' = cache
        /\ (tpc[i] = "sleep" /\ lastDecode[i] = "timeout" /\ tpc'[i] # "sleep")
              => attempt'[i] = attempt[i] + 1 /\ tpc'[i] = FirstStage(UrlOf(i))
        /\ (tpc[i] = "decode" /\ lastDecode'[i] = "timeout" /\ attempt[i] = RETRY_COUNT)
              => tpc'[i] = "load" /\ stats' = stats /\ cache' = cache
        /\ (tpc[i] = "store" /\ lastDecode[i] = "timeout" /\ tpc'[i] # "store")
              => stats' = [stats EXCEPT !.timeout = tmp[i] + 1]
        /\ (tpc[i] = "install" /\ lastDecode[i] = "timeout" /\ tpc'[i] # "install")
              => /\ bumped[i] = <<"timeout">>
                 /\ UrlOf(i) \in DOMAIN cache'
                 /\ cache'[UrlOf(i)] = TimeoutOutcome
                 /\ result'[i] = Returned(TimeoutOutcome)
        /\ (Takes(i) /\ result[i] = Returned(TimeoutOutcome))
              => updated_lines' = updated_lines

C8_DecodeTimeoutIsTimedOut == [][C8_Step]_vars

C8_Witness ==
    /\ mpc = "done"
    /\ \E i \in Chans :
          /\ result[i] = Returned(TimeoutOutcome)
          /\ bumped[i] = <<"timeout">>
          /\ stats.timeout >= 1
          /\ stats.failed = 0

\* C9: a channel whose future the collection loop took after a wait beyond
\* the wait budget is counted as skipped once, its lines are appended to the
\* side file as one record, and it adds nothing to the output buffer.
C9_Step ==
    \A i \in Chans :
        Takes(i) /\ overBudget' =>
            /\ stats'.skipped = stats.skipped + 1
            /\ skipped_file' = skipped_file \o LinesOf(i)
            /\ updated_lines' = updated_lines

C9_OverBudgetIsSkipped == [][C9_Step]_vars

\* an outcome pair: (True, None), or False with a reason
IsOutcome(v) == v = Working \/ (v[1] = FALSE /\ v[2] \notin {NoReason, ""})

\* a call that has a step to take: it is inside check_stream, or it is queued
\* and a worker thread is free or will be once a running call ends
Moves(i) ==
    \/ tpc[i] \in {"preflight", "decode", "ffprobe", "curl", "sleep",
                    "load", "store", "install"}
    \/ tpc[i] = "queued" /\ (Cardinality(Running) < NUM_THREADS \/ Running # {})

\* C10: every check_stream call that has ended has returned an outcome pair;
\* the collection loop is never left by an exception and takes every
\* channel's future before the output is written; while it waits, every
\* channel not yet taken has a call that is done or still moves, so the run
\* is never stuck short of writing the output and the summary.
C10_EveryCallReturnsAnOutcome ==
    /\ \A i \in Chans :
          Done(i) => result[i].kind = "return" /\ IsOutcome(result[i].val)
    /\ mpc # "aborted"
    /\ mpc = "done" => CollectedSet = Chans /\ saved # <<>>
    /\ mpc = "collect" =>
          \A i \in Chans \ CollectedSet : Done(i) \/ Moves(i)

C10_Witness ==
    /\ mpc = "done"
    /\ Len(channels) = 2
    /\ result[1] = Returned(GeneralOutcome)
    /\ result[2] = Returned(Working)

\* ------------------------------------------- claims on the header mapping
\* The claims read a directive by its tokens: the syntax token(s) first, then
\* the value, or NAME ":" VALUE, or NAME "=" VALUE joined by "&".
Loaded == mpc = "submit" /\ Len(channels) = 1
Options == channels[1].options
Info == channels[1].extinf

IsVlc(o, name) == Len(o) >= 3 /\ o[1] = "#EXTVLCOPT:" /\ o[2] = name
IsKodiStreamHeaders(o) ==
    Len(o) >= 5 /\ o[1] = "#KODIPROP:" /\ o[2] = "inputstream.adaptive.stream_headers="
IsKodiProperty(o) == Len(o) = 4 /\ o[1] = "#KODIPROP:" /\ o[3] = "="
Rest(o, k) == SubSeq(o, k, Len(o))

\* the canonical name of the header a name token stands for
CanonicalName ==
    "user-agent" :> "User-Agent" @@ "User-Agent" :> "User-Agent" @@
    "http-user-agent" :> "User-Agent" @@
    "referer" :> "Referer" @@ "referrer" :> "Referer" @@
    "origin" :> "Origin" @@ "http-origin" :> "Origin" @@
    "x-token" :> "X-Token" @@ "X-Token" :> "X-Token"

\* C14: a list holding only the dedicated user-agent directive with value V
\* yields the mapping with the single entry User-Agent -> V, V with its
\* surrounding whitespace removed.
C14_OnlyUserAgentDirective ==
    Loaded /\ Len(Options) = 1 /\ IsVlc(Options[1], "http-user-agent=")
    => HeadersOf(1) = (Str("User-Agent") :> strip(Chars(Rest(Options[1], 3))))

C14_Witness ==
    /\ Loaded
    /\ Options = << <<"#EXTVLCOPT:", "http-user-agent=", " ", "Bar">> >>
    /\ HeadersOf(1) = (Str("User-Agent") :> <<"B", "a", "r">>)

\* C15: the dedicated origin directive with value V yields Origin -> V, the
\* dedicated referrer directive Referer -> V, and the named-header directive
\* "K: V" yields K -> V, with no character of the directive prefix in a key
\* or a value.
C15_DedicatedDirectiveValues ==
    Loaded /\ Len(Options) = 1 =>
        LET o == Options[1]
            value == strip(Chars(Rest(o, 3)))
        IN /\ IsVlc(o, "http-origin=") => HeadersOf(1) = (Str("Origin") :> value)
           /\ IsVlc(o, "http-referrer=") => HeadersOf(1) = (Str("Referer") :> value)
           /\ IsVlc(o, "http-header=") =>
                  HeadersOf(1) = (Str(o[3]) :> strip(Chars(Rest(o, 5))))

\* the (name, value) pairs of a Kodi stream-headers directive, in order
NumPairs(o) == (Len(o) - 1) \div 4
PairName(o, j) == CanonicalName[o[4 * j - 1]]
PairValue(o, j) == Str(o[4 * j + 1])

\* C16: for a Kodi stream-headers directive K1=V1&...&Kn=Vn the mapping holds,
\* for every pair and the first one too, canonical(Ki) -> Vi, and no entry
\* whose key or value holds a part of the directive prefix.
C16_EveryStreamHeaderPair ==
    Loaded /\ Len(Options) = 1 /\ IsKodiStreamHeaders(Options[1]) =>
        LET o == Options[1]
            h == HeadersOf(1)
        IN /\ \A j \in 1..NumPairs(o) :
                  /\ Str(PairName(o, j)) \in DOMAIN h
                  /\ h[Str(PairName(o, j))] = PairValue(o, j)
           /\ DOMAIN h = {Str(PairName(o, j)) : j \in 1..NumPairs(o)}

\* the headers a directive defines, as (canonical name, value) in order
Defs(o) ==
    IF IsVlc(o, "http-user-agent=")
        THEN << <<"User-Agent", strip(Chars(Rest(o, 3)))>> >>
    ELSE IF IsVlc(o, "http-referrer=")
        THEN << <<"Referer", strip(Chars(Rest(o, 3)))>> >>
    ELSE IF IsVlc(o, "http-origin=")
        THEN << <<"Origin", strip(Chars(Rest(o, 3)))>> >>
    ELSE IF IsVlc(o, "http-")
        THEN << <<CanonicalName[o[3]], strip(Chars(Rest(o, 5)))>> >>
    ELSE IF IsKodiStreamHeaders(o)
        THEN [j \in 1..NumPairs(o) |-> <<PairName(o, j), PairValue(o, j)>>]
    ELSE IF IsKodiProperty(o)
        THEN << <<CanonicalName[o[2]], Str(o[4])>> >>
    ELSE <<>>

HeaderNames == {"User-Agent", "Referer", "Origin", "X-Token"}
Defines(o, name) == \E j \in 1..Len(Defs(o)) : Defs(o)[j][1] = name
Definers(name) == {i \in 1..Len(Options) : Defines(Options[i], name)}
Max(set) == CHOOSE x \in set : \A y \in set : y <= x
LatestValue(name) ==
    LET d == Defs(Options[Max(Definers(name))])
        j == Max({k \in 1..Len(d) : d[k][1] = name})
    IN d[j][2]

\* C13: when two or more directives of a list define the same header (by a
\* dedicated VLC directive, a generic http- VLC option, a Kodi stream-headers
\* pair or a generic Kodi property), the mapping holds exactly one entry for
\* that header, and its value is the one of the latest such directive.
C13_LatestDirectiveWins ==
    Loaded =>
        \A name \in HeaderNames :
            Cardinality(Definers(name)) >= 2 =>
                LET h == HeadersOf(1) IN
                /\ {k \in DOMAIN h : lower(k) = lower(Str(name))} = {Str(name)}
                /\ h[Str(name)] = LatestValue(name)

\* the attributes an info line embeds, and the tokens of an attribute's value:
\* up to the closing quote, else up to the first space, else up to the first
\* comma
InfoAttributes ==
    "user-agent=" :> "User-Agent" @@ "referrer=" :> "Referer" @@
    "referer=" :> "Referer" @@ "origin=" :> "Origin"

RECURSIVE Before(_, _)
Before(tokens, stop) ==
    IF tokens = <<>> \/ Head(tokens) = stop THEN <<>>
    ELSE <<Head(tokens)>> \o Before(Tail(tokens), stop)

Has(tokens, t) == \E k \in 1..Len(tokens) : tokens[k] = t

ValueTokens(rest) ==
    IF rest # <<>> /\ Head(rest) = "\"" THEN Before(Tail(rest), "\"")
    ELSE IF Has(rest, " ") THEN Before(rest, " ")
    ELSE Before(rest, ",")

\* C17: for a channel whose info line embeds user-agent=, referer=,
\* referrer= or origin= attributes, the mapping derived for the channel and
\* passed to check_stream holds the corresponding entry with the attribute's
\* value.
C17_InfoAttributesArePassed ==
    Loaded =>
        \A k \in 1..Len(Info) :
            Info[k] \in DOMAIN InfoAttributes =>
                LET name == Str(InfoAttributes[Info[k]])
                    h == HeadersOf(1)
                IN /\ name \in DOMAIN h
                   /\ h[name] = Chars(ValueTokens(Rest(Info, k + 1)))

\* ------------------------------------------------- claims on a single call
CallDone == Observing /\ tpc[1] = "done"
Events(att, stage) ==
    {k \in 1..Len(trace) : trace[k].att = att /\ trace[k].stage = stage}

RequestReasons ==
    {"No connection!", "Request timeout", "Access forbidden (403)", "Request error"}

\* C18: when the preflight of the final attempt raised a request-layer
\* exception, the call ends Failed with a reason of the request-error table,
\* and the decode probe's diagnostic classification is not used.
C18_RequestErrorFailsByTable ==
    CallDone /\ (\E k \in Events(RETRY_COUNT, "preflight") :
                     trace[k].out = "RequestException")
    => /\ result[1].kind = "return"
       /\ ~result[1].val[1]
       /\ result[1].val[2] \in RequestReasons
       /\ Events(RETRY_COUNT, "decode") = {}

StageRank == "preflight" :> 1 @@ "decode" :> 2 @@ "ffprobe" :> 3 @@ "curl" :> 4
Probes == {"decode", "ffprobe", "curl"}

\* the stage invoked next after event k, in the same attempt
Follows(k, stage) ==
    IF k < Len(trace)
    THEN trace[k + 1].stage = stage /\ trace[k + 1].att = trace[k].att
    ELSE tpc[1] = stage

InStageOrder ==
    \A k, l \in 1..Len(trace) :
        k < l => \/ trace[k].att < trace[l].att
                 \/ /\ trace[k].att = trace[l].att
                    /\ StageRank[trace[k].stage] < StageRank[trace[l].stage]

SuccessEndsTheCall ==
    \A k \in 1..Len(trace) :
        trace[k].stage \in Probes /\ trace[k].out = "ok" =>
            /\ k = Len(trace)
            /\ tpc[1] = "done" => result[1] = Returned(Working)

FirstAttemptFallbacks ==
    \A k \in 1..Len(trace) :
        trace[k].att = 0 =>
            /\ trace[k].stage = "decode" /\ trace[k].out # "ok"
                   => Follows(k, "ffprobe")
            /\ trace[k].stage = "ffprobe" /\ trace[k].out # "ok"
                   => (Follows(k, "curl")
                         <=> IsHttp(UrlOf(1)) /\ HeadersOf(1) # NoHeaders)

NoLaterFallbacks ==
    \A k \in 1..Len(trace) :
        trace[k].att > 0 => trace[k].stage \notin {"ffprobe", "curl"}

\* C19: the stages of a call run in the order preflight, decode, metadata
\* probe, redirect-aware probe; a probe signalling success ends the call with
\* Working and nothing runs after it; on the first attempt a decode probe that
\* does not signal success is followed by the metadata probe, and that by the
\* redirect-aware probe exactly when the headers are non-empty and the URL is
\* http/https; on later attempts neither fallback is invoked.
C19_StagesInOrderWithFallbacks ==
    Observing =>
        /\ InStageOrder
        /\ SuccessEndsTheCall
        /\ FirstAttemptFallbacks
        /\ NoLaterFallbacks

PatternOrder ==
    <<"403 Forbidden", "404 Not Found", "401 Unauthorized",
      "Protocol not found", "Connection refused", "Unable to open resource">>

ReasonOf ==
    "403 Forbidden" :> "Access forbidden (403)" @@
    "404 Not Found" :> "Stream not found (404)" @@
    "401 Unauthorized" :> "Authentication required (401)" @@
    "Protocol not found" :> "Protocol not supported" @@
    "Connection refused" :> "Connection refused" @@
    "Unable to open resource" :> "Unable to open resource"

Min(set) == CHOOSE x \in set : \A y \in set : x <= y

FirstMatch(err) ==
    LET hits == {k \in 1..Len(PatternOrder) : PatternOrder[k] \in err} IN
    IF hits = {} THEN "Stream does not work"
    ELSE ReasonOf[PatternOrder[Min(hits)]]

\* C20: when the decode probe of the final attempt fails, the reason the call
\* returns and installs is the one of the first pattern, in the fixed order,
\* found in that probe's diagnostic output, and "Stream does not work" when
\* none is found.
C20_FirstMatchingPatternDecides ==
    CallDone =>
        \A k \in Events(RETRY_COUNT, "decode") :
            trace[k].out = "fail" =>
                /\ result[1] = Returned(<<FALSE, FirstMatch(trace[k].err)>>)
                /\ cache[UrlOf(1)] = <<FALSE, FirstMatch(trace[k].err)>>

C20_Witness ==
    /\ CallDone
    /\ \E k \in Events(RETRY_COUNT, "decode") :
           /\ trace[k].out = "fail"
           /\ trace[k].err = {"404 Not Found", "403 Forbidden", "Connection refused"}
    /\ \E k \in Events(0, "decode") :
           trace[k].out = "fail" /\ trace[k].err = {"401 Unauthorized"}
    /\ result[1] = Returned(<<FALSE, "Access forbidden (403)">>)

\* ------------------------------------------------ claims on an interrupt
Interrupted == mpc \in {"shutdown", "exited"}

\* C11: once the interrupt is received, no validation task that has not yet
\* started is started, and the process exits without waiting for the queued
\* channels: from then on a queued task stays queued.
C11_NoTaskStartsAfterInterrupt ==
    [][Interrupted => \A i \in Chans : tpc[i] = "queued" => tpc'[i] = "queued"]_vars

\* ------------------------------------------------ claims on the counters
Counters == {"working", "failed", "timeout", "skipped"}

\* the increment operations performed on a counter: the "+= 1" a call
\* completed on it and, for skipped, the ones of the collection loop
RECURSIVE CountIn(_, _)
CountIn(seq, c) ==
    IF seq = <<>> THEN 0
    ELSE (IF Head(seq) = c THEN 1 ELSE 0) + CountIn(Tail(seq), c)

RECURSIVE PerformedUpTo(_, _)
PerformedUpTo(n, c) ==
    IF n = 0 THEN 0
    ELSE PerformedUpTo(n - 1, c) + CountIn(bumped[n], c)
         + (IF c = "skipped" /\ n \in CollectedSet /\ result[n] = RaisedTimeout
            THEN 1 ELSE 0)

Performed(c) == PerformedUpTo(Len(channels), c)

AllSettled == mpc \in {"collect", "done"} /\ \A i \in Chans : Done(i)

\* C21: under any interleaving of the worker threads every counter is
\* non-decreasing during a run, and once all tasks have settled it equals
\* the number of increment operations performed on it.
C21_CountersMonotoneNoLostIncrement ==
    /\ [](AllSettled /\ CollectedSet = Chans =>
              \A c \in Counters : stats[c] = Performed(c))
    /\ [][\A c \in Counters : stats'[c] >= stats[c]]_vars

\* ------------------------------------------------ claims on several runs
\* a call that returned what it found in the cache at entry
ReturnedFromCache(i) ==
    Done(i) /\ result[i].kind = "return" /\ bumped[i] = <<>>

Starts(i) == tpc[i] = "queued" /\ tpc'[i] # "queued"
Retries(i) == tpc[i] = "sleep" /\ attempt'[i] = attempt[i] + 1

C23_HitStep ==
    \A i \in Chans :
        Starts(i) /\ UrlOf(i) \in DOMAIN cache =>
            /\ tpc'[i] = "done"
            /\ result'[i] = Returned(cache[UrlOf(i)])
            /\ probed'[i] = FALSE /\ bumped'[i] = <<>>
            /\ cache' = cache /\ stats' = stats /\ trace' = trace

C23_RetryStep ==
    \A i \in Chans :
        Retries(i) => tpc'[i] \in {"preflight", "decode"} /\ result'[i] = NoResult

C23_ReturnedStays ==
    \A i \in Chans :
        Done(i) => Done(i)' /\ result'[i] = result[i] /\ probed'[i] = probed[i]

\* C23: a call that finds its URL in the cache at entry returns the cached
\* pair at once, without an HTTP request or a probe, and leaves the cache and
\* the counters as they are; before a further attempt the cache is not looked
\* at again, whatever it holds by then.
C23_CacheHitReturnsAtOnce ==
    [][C23_HitStep /\ C23_RetryStep /\ C23_ReturnedStays]_vars

C23_Witness ==
    \E i, j \in Chans :
        /\ SameUrl(i, j)
        /\ ReturnedFromCache(i) /\ ~probed[i]
        /\ result[i] = Returned(TimeoutOutcome)
        /\ cache[UrlOf(i)] = TimeoutOutcome
        /\ bumped[j] = <<"timeout">>
        /\ stats.timeout = 1

\* C24: in every state of a run the skipped counter is 0 and nothing has
\* been appended to the side file.
C24_NothingIsEverSkipped ==
    stats.skipped = 0 /\ skipped_file = <<>>

C24_Witness ==
    /\ mpc = "done"
    /\ overBudget
    /\ Len(collected) = 2
    /\ result[collected[2]] = Returned(TimeoutOutcome)
    /\ stats.skipped = 0
    /\ skipped_file = <<>>

====
